---- MODULE Spec2Model ----
(***************************************************************************)
(* Import pipeline of the Geolife trajectory dataset into a relational     *)
(* store (migrator.py, class Migrator) and into a document store           *)
(* (mongodb/importer.py, class Importer).                                  *)
(*                                                                         *)
(* A Python str is a sequence of one-character strings, a file is the      *)
(* sequence of its lines, a directory is the sequence os.listdir returns.  *)
(* A datetime is the pair <<date, time>>, ordered lexicographically.       *)
(***************************************************************************)
EXTENDS Integers, Sequences, FiniteSets, TLC

VARIABLES
    target,     \* "rel": migrator.py is run; "doc": mongodb/importer.py is run
    src,        \* the dataset directory (read only for the pipeline)
    pc,         \* position of the running operation, "idle" between calls
    outcome,    \* how the last finished call ended
    migrated,   \* Migrator.migrated
    tables,     \* relational sink as the connection sees it: tables and rows
    committed,  \* relational sink as of the last commit on the connection
    locals,     \* local variables of the running operation
    calls,      \* bulk write calls issued to the sink by the running seed/import
    colls,      \* document sink: existing collections, their documents, indices
    oid,        \* number of ObjectId() values generated so far
    runs,       \* number of seed()/import_with_backreferences() calls so far
    pre,        \* history: sink contents when the running call started
    idHist,     \* history: per run, the activity id given to each source file
    parked      \* a second Migrator/Importer on the same sink: its own state,
                \* while the calls of the first one run (see Context)

vars == <<target, src, pc, outcome, migrated, tables, committed, locals, calls,
          colls, oid, runs, pre, idHist, parked>>

-----------------------------------------------------------------------------
(* Bounds of the model.                                                    *)

\* seed()/import_with_backreferences() calls per behaviour
MaxRuns == 2
\* largest time of day in a source row or label
MaxTime == 3
\* activity_line_limit / max_track_points: 2500 in the source, scaled down
activity_line_limit == 2
\* batch_size of seed_track_points: 120_000 in the source, scaled down
batch_size == 2

\* Importer.HEADER_SIZE, the header lines of an activity file
HEADER_SIZE == 6

-----------------------------------------------------------------------------
(* Sequences and strings.                                                  *)

Range(s) == {s[i] : i \in DOMAIN s}

Min(a, b) == IF a <= b THEN a ELSE b

\* s[from:] of Python, from counted from 0
Drop(s, from) == SubSeq(s, from + 1, Len(s))

\* s[a:b] of Python, clipped to the sequence
Slice(s, a, b) == SubSeq(s, a + 1, Min(b, Len(s)))

RECURSIVE Concat(_)
Concat(ss) == IF ss = <<>> THEN <<>> ELSE Head(ss) \o Concat(Tail(ss))

\* [f(x) for x in s]
Map(s, f(_)) == [i \in DOMAIN s |-> f(s[i])]

Digits == {"0", "1", "2", "3", "4", "5", "6", "7", "8", "9"}

\* str.isnumeric()
IsNumeric(s) == Len(s) > 0 /\ \A i \in DOMAIN s : s[i] \in Digits

\* index of the first c in s, Len(s)+1 when there is none
RECURSIVE IndexOf(_, _, _)
IndexOf(s, c, i) ==
    IF i > Len(s) THEN Len(s) + 1
    ELSE IF s[i] = c THEN i ELSE IndexOf(s, c, i + 1)

\* index of the last c in s, 0 when there is none
RECURSIVE LastIndexOf(_, _, _)
LastIndexOf(s, c, i) ==
    IF i < 1 THEN 0
    ELSE IF s[i] = c THEN i ELSE LastIndexOf(s, c, i - 1)

\* s.split(c)[0]
SplitFirst(s, c) == SubSeq(s, 1, IndexOf(s, c, 1) - 1)

\* s.split(c)[-1]
SplitLast(s, c) == SubSeq(s, LastIndexOf(s, c, Len(s)) + 1, Len(s))

DigitChars == <<"0", "1", "2", "3", "4", "5", "6", "7", "8", "9">>

DigitVal(c) == (CHOOSE k \in DOMAIN DigitChars : DigitChars[k] = c) - 1

\* int(s) of a string of digits
RECURSIVE ParseInt(_)
ParseInt(s) ==
    IF s = <<>> THEN 0
    ELSE 10 * ParseInt(SubSeq(s, 1, Len(s) - 1)) + DigitVal(s[Len(s)])

\* str(n), n >= 0
RECURSIVE ToDigits(_)
ToDigits(n) ==
    IF n < 10 THEN <<DigitChars[n + 1]>>
    ELSE Append(ToDigits(n \div 10), DigitChars[(n % 10) + 1])

\* a datetime a is not later than b
DtLeq(a, b) == a[1] < b[1] \/ (a[1] = b[1] /\ a[2] <= b[2])

-----------------------------------------------------------------------------
(* The dataset: dataset/data/<user>/Trajectory/<file>, labels.txt and      *)
(* labeled_ids.txt.                                                        *)

\* os.path.join(package_dir, "dataset", "data", user_id, "Trajectory")
user_activity_dir(user_id) == <<"d", "/">> \o user_id \o <<"/", "T">>

\* os.path.join(dir, name)
path_join(dir, name) == dir \o <<"/">> \o name

\* os.listdir(<data>/<user_id>/Trajectory)
listdir_trajectory(user_id) == Map(src.traj[user_id], LAMBDA f : f.name)

\* open(path).readlines() of an activity file
readlines(path) ==
    LET u == CHOOSE u \in DOMAIN src.traj :
                 \E i \in DOMAIN src.traj[u] :
                     path_join(user_activity_dir(u), src.traj[u][i].name) = path
        i == CHOOSE i \in DOMAIN src.traj[u] :
                 path_join(user_activity_dir(u), src.traj[u][i].name) = path
    IN  src.traj[u][i].lines

\* a header line and a data line "lat,lon,0,alt,days,date,time"
HeaderLine == <<0>>
DataLine(date, time) == <<0, 0, 0, 0, 0, date, time>>

-----------------------------------------------------------------------------
(* Migrator (migrator.py): the relational path.                            *)

TableNames == {"User", "Activity", "TrackPoint"}

\* Migrator._get_user_ids: the numeric entries of the data directory
_get_user_ids == SelectSeq(src.listing, IsNumeric)

\* f.read().splitlines() of labeled_ids.txt
labeled_ids == src.labeled

\* data rows of an activity file: f.readlines()[6:]
track_points_of(path) == Drop(readlines(path), HEADER_SIZE)

\* faulty variant of _get_activity_files_for_user: a file of exactly
\* max_track_points rows is left out
_get_activity_files_for_user_below(user_id) ==
    LET user_dir == user_activity_dir(user_id)
        keep(activity_file) ==
            Len(track_points_of(path_join(user_dir, activity_file)))
                < activity_line_limit
    IN  Map(SelectSeq(listdir_trajectory(user_id), keep),
            LAMBDA activity_file : path_join(user_dir, activity_file))

\* Migrator._get_activity_files_for_user: the files within the limit, as paths
_get_activity_files_for_user(user_id) ==
    LET user_dir == user_activity_dir(user_id)
        keep(activity_file) ==
            Len(track_points_of(path_join(user_dir, activity_file)))
                <= activity_line_limit
    IN  Map(SelectSeq(listdir_trajectory(user_id), keep),
            LAMBDA activity_file : path_join(user_dir, activity_file))

\* faulty variant of _get_activity_id: the id is numbered after the rows the
\* Activity table holds, as an auto-increment key would be
_get_activity_id_by_count(activity_file_name, user_id) ==
    user_id \o <<"-">> \o ToDigits(Len(tables.Activity))

\* Migrator._get_activity_id: "<user_id>-<text of the file name before its first dot>"
_get_activity_id(activity_file_name, user_id) ==
    user_id \o <<"-">> \o SplitFirst(SplitLast(activity_file_name, "/"), ".")

\* the files seed_activities and seed_track_points read, as <<user_id, path>>
seed_files ==
    Concat(Map(_get_user_ids,
               LAMBDA user_id : Map(_get_activity_files_for_user(user_id),
                                    LAMBDA path : <<user_id, path>>)))

\* track_points[0].split(",")[5] raises IndexError: no data row, or a short one
make_activity_raises(path) ==
    LET track_points == track_points_of(path)
    IN  \/ track_points = <<>>
        \/ Len(track_points[1]) < 7
        \/ Len(track_points[Len(track_points)]) < 7

\* one tuple of _make_activity_data
activity_tuple(user_id, path) ==
    LET track_points == track_points_of(path)
        first == track_points[1]
        last == track_points[Len(track_points)]
    IN  [id |-> _get_activity_id(path, user_id),
         user_id |-> user_id,
         start_datetime |-> <<first[6], first[7]>>,
         end_datetime |-> <<last[6], last[7]>>]

\* Migrator._make_activity_data (when no file raises)
_make_activity_data == Map(seed_files, LAMBDA f : activity_tuple(f[1], f[2]))

\* column default of Activity.transportation_mode (schema: migrations/*.sql)
ActivityModeDefault == ""

\* faulty variant of insert_ignore_activities: a plain INSERT into a table
\* without a key, every row is added
insert_activities_plain(table, data) ==
    table \o [k \in DOMAIN data |->
                 [id |-> data[k].id, user_id |-> data[k].user_id,
                  start_datetime |-> data[k].start_datetime,
                  end_datetime |-> data[k].end_datetime,
                  transportation_mode |-> ActivityModeDefault]]

\* INSERT IGNORE INTO Activity(id, user_id, start_datetime, end_datetime):
\* a row whose id is already there is skipped
RECURSIVE insert_ignore_activities(_, _)
insert_ignore_activities(table, data) ==
    IF data = <<>> THEN table
    ELSE LET r == Head(data)
             row == [id |-> r.id, user_id |-> r.user_id,
                     start_datetime |-> r.start_datetime,
                     end_datetime |-> r.end_datetime,
                     transportation_mode |-> ActivityModeDefault]
         IN  insert_ignore_activities(
                 IF \E i \in DOMAIN table : table[i].id = r.id
                 THEN table ELSE Append(table, row),
                 Tail(data))

\* faulty variant of upsert_users: INSERT IGNORE, a row that is there is kept
RECURSIVE upsert_users_ignore(_, _)
upsert_users_ignore(table, data) ==
    IF data = <<>> THEN table
    ELSE LET r == Head(data)
         IN  upsert_users_ignore(
                 IF \E i \in DOMAIN table : table[i].id = r.id
                 THEN table ELSE Append(table, r),
                 Tail(data))

\* INSERT INTO User(id, has_labels) ... ON DUPLICATE KEY UPDATE has_labels
RECURSIVE upsert_users(_, _)
upsert_users(table, data) ==
    IF data = <<>> THEN table
    ELSE LET r == Head(data)
         IN  upsert_users(
                 IF \E i \in DOMAIN table : table[i].id = r.id
                 THEN [i \in DOMAIN table |->
                          IF table[i].id = r.id
                          THEN [table[i] EXCEPT !.has_labels = r.has_labels]
                          ELSE table[i]]
                 ELSE Append(table, r),
                 Tail(data))

\* the data of seed_users: (user_id, user_id in labeled_ids)
seed_users_data ==
    Map(_get_user_ids,
        LAMBDA user_id : [id |-> user_id,
                          has_labels |-> user_id \in Range(labeled_ids)])

\* Migrator._get_labels_for_user_from_dataset: (mode, id, start, end) per row
_get_labels_for_user_from_dataset(id) ==
    Map(src.labels[id],
        LAMBDA label : [mode |-> label[3], id |-> id,
                        start_datetime |-> label[1], end_datetime |-> label[2]])

\* WHERE user_id = %s AND start_datetime >= %s AND end_datetime <= %s
update_where(row, label) ==
    /\ row.user_id = label.id
    /\ DtLeq(label.start_datetime, row.start_datetime)
    /\ DtLeq(row.end_datetime, label.end_datetime)

\* UPDATE Activity SET transportation_mode = %s WHERE ..., for one label
update_activity_mode(table, label) ==
    [i \in DOMAIN table |->
        IF update_where(table[i], label)
        THEN [table[i] EXCEPT !.transportation_mode = label.mode]
        ELSE table[i]]

\* cursor.executemany(query, labels): one UPDATE per label, in file order
RECURSIVE executemany_update(_, _)
executemany_update(table, labels) ==
    IF labels = <<>> THEN table
    ELSE executemany_update(update_activity_mode(table, Head(labels)),
                            Tail(labels))

\* the loop of _update_activity_transportation_modes over labeled ids
RECURSIVE update_modes_for(_, _)
update_modes_for(table, ids) ==
    IF ids = <<>> THEN table
    ELSE update_modes_for(
             executemany_update(table,
                                _get_labels_for_user_from_dataset(Head(ids))),
             Tail(ids))

\* open(labels.txt) raises FileNotFoundError for a labeled id without the file
update_modes_raises == \E id \in Range(labeled_ids) : id \notin DOMAIN src.labels

\* the labeled ids the loop reaches: those before the first one without the file
labeled_ids_read ==
    LET missing == {i \in DOMAIN labeled_ids : labeled_ids[i] \notin DOMAIN src.labels}
    IN  IF missing = {} THEN labeled_ids
        ELSE SubSeq(labeled_ids, 1,
                    (CHOOSE i \in missing : \A j \in missing : i <= j) - 1)

\* Migrator._update_activity_transportation_modes
_update_activity_transportation_modes(table) ==
    update_modes_for(table, labeled_ids_read)

\* the executemany calls of _update_activity_transportation_modes, one per id
update_modes_calls ==
    Map(labeled_ids_read,
        LAMBDA id : [ok |-> TRUE, to |-> "Activity_mode",
                     records |-> _get_labels_for_user_from_dataset(id)])

\* latitude, longitude, _, altitude, date_days, date, time = track_point.split(",")
\* raises ValueError unless the row has exactly 7 fields
seed_track_points_raises ==
    \E f \in Range(seed_files) :
        \E row \in Range(track_points_of(f[2])) : Len(row) # 7

\* the rows seed_track_points builds from one file; line is not a column: it
\* records the source line of the row, <<path, number of the data row>>
track_point_rows(user_id, path) ==
    LET track_points == track_points_of(path)
    IN  [k \in DOMAIN track_points |->
            [activity_id |-> _get_activity_id(path, user_id),
             latitude |-> track_points[k][1],
             longitude |-> track_points[k][2],
             altitude |-> track_points[k][4],
             date_days |-> track_points[k][5],
             datetime |-> <<track_points[k][6], track_points[k][7]>>,
             line |-> <<path, k>>]]

\* the list data of seed_track_points
seed_track_points_data ==
    Concat(Map(seed_files, LAMBDA f : track_point_rows(f[1], f[2])))

\* faulty variant of batch: the slice ends one record early
batch_short(data, i) == Slice(data, i, i + batch_size - 1)

\* data[i:i+batch_size]
batch(data, i) == Slice(data, i, i + batch_size)

\* TrackPoint.id, the only key of the table (schema: migrations/*.sql), is
\* assigned by the table: the id of the next row
next_track_point_id(table) == Len(table) + 1

\* INSERT INTO TrackPoint (activity_id, ...): every row is added under a new id
insert_track_points(table, rows) ==
    table \o [k \in DOMAIN rows |->
                 [id |-> next_track_point_id(table) + k - 1,
                  activity_id |-> rows[k].activity_id,
                  latitude |-> rows[k].latitude,
                  longitude |-> rows[k].longitude,
                  altitude |-> rows[k].altitude,
                  date_days |-> rows[k].date_days,
                  datetime |-> rows[k].datetime, line |-> rows[k].line]]

\* sorted(migration_files): one file per table, parents first, each a single
\* CREATE TABLE IF NOT EXISTS (schema: migrations/*.sql)
Migrations == <<"User", "Activity", "TrackPoint">>

\* cursor.execute(f.read()) of one migration file that succeeds
run_migration(t, name) == [t EXCEPT !.exists = @ \cup {name}]

\* connection.rollback(): the connection is back at what was last committed
rollback == committed

\* faulty variant of drop_table: the rows are deleted, the table is kept
drop_table_rows_only(t, name) == [t EXCEPT ![name] = <<>>]

\* DROP TABLE IF EXISTS <name>
drop_table(t, name) == [t EXCEPT !.exists = @ \ {name}, ![name] = <<>>]

EmptyTables ==
    [exists |-> {}, User |-> <<>>, Activity |-> <<>>, TrackPoint |-> <<>>]

-----------------------------------------------------------------------------
(* Importer (mongodb/importer.py): the document path.                      *)

\* "{:03d}".format(n)
Format03(n) ==
    LET d == ToDigits(n)
    IN  [i \in 1..(IF Len(d) < 3 THEN 3 - Len(d) ELSE 0) |-> "0"] \o d

\* sorted(ints)
RECURSIVE SortInts(_)
SortInts(s) ==
    IF s = <<>> THEN <<>>
    ELSE LET k == CHOOSE k \in DOMAIN s : \A j \in DOMAIN s : s[k] <= s[j]
         IN  <<s[k]>> \o SortInts(SubSeq(s, 1, k - 1) \o SubSeq(s, k + 1, Len(s)))

\* the entries import_user_df converts: [f for f in listdir if not f.startswith(".")]
user_directory_names ==
    SelectSeq(src.listing, LAMBDA f : ~(Len(f) > 0 /\ f[1] = "."))

\* int(f) raises ValueError
import_user_raises == \E f \in Range(user_directory_names) : ~IsNumeric(f)

\* Importer.import_user_df: _id sorted, has_labels = _id in labeled_ids.txt
import_user_df ==
    LET labeled_users == {ParseInt(l) : l \in Range(src.labeled)}
    IN  Map(SortInts(Map(user_directory_names, ParseInt)),
            LAMBDA id : [_id |-> id, has_labels |-> id \in labeled_users])

\* os.path.join(self.data_path, id_with_leading_zeros, "Trajectory")
activity_path(user_id) == user_activity_dir(Format03(user_id))

\* the files of a user within the limit:
\* len(f.readlines()) <= self.activity_line_limit + self.HEADER_SIZE
import_files_for_user(user_id) ==
    LET keep(file_name) ==
            Len(readlines(path_join(activity_path(user_id), file_name)))
                <= activity_line_limit + HEADER_SIZE
    IN  Map(SelectSeq(listdir_trajectory(Format03(user_id)), keep),
            LAMBDA file_name : <<user_id, path_join(activity_path(user_id), file_name)>>)

\* the files import_activities_and_track_points_df reads, as <<user_id, path>>
import_files(users_df) ==
    Concat(Map(users_df, LAMBDA u : import_files_for_user(u._id)))

\* pd.read_csv(file_path, skiprows=self.HEADER_SIZE, ...)
curr_tps(path) == Drop(readlines(path), HEADER_SIZE)

\* what makes import_activities_and_track_points_df raise before the labels
\* are read: a user directory that is not there, a file without data rows
\* (.iloc[0]), no file at all (pd.concat of an empty list)
import_files_raise(users_df) ==
    \/ \E u \in Range(users_df) : Format03(u._id) \notin DOMAIN src.traj
    \/ \E f \in Range(import_files(users_df)) : curr_tps(f[2]) = <<>>
    \/ import_files(users_df) = <<>>

\* activity_tuples: the k-th file read gets the k-th ObjectId() of the call
activity_tuples(users_df) ==
    LET files == import_files(users_df)
    IN  [k \in DOMAIN files |->
            LET tps == curr_tps(files[k][2])
            IN  [_id |-> oid + k,
                 user_id |-> files[k][1],
                 start_datetime |-> <<tps[1][6], tps[1][7]>>,
                 end_datetime |-> <<tps[Len(tps)][6], tps[Len(tps)][7]>>]]

\* the track points of the k-th file read; line is not a field: it records
\* the source line of the document, <<path, number of the data row>>
raw_track_points(users_df) ==
    LET files == import_files(users_df)
    IN  Concat([k \in DOMAIN files |->
            LET tps == curr_tps(files[k][2])
            IN  [r \in DOMAIN tps |->
                    [datetime |-> <<tps[r][6], tps[r][7]>>,
                     latitude |-> tps[r][1],
                     longitude |-> tps[r][2],
                     altitude |-> tps[r][4],
                     location |-> <<tps[r][2], tps[r][1]>>,
                     activity_id |-> oid + k,
                     user_id |-> Format03(files[k][1]),
                     line |-> <<files[k][2], r>>]]])

\* the users whose labels.txt is read
labeled_users_of(users_df) == SelectSeq(users_df, LAMBDA u : u.has_labels)

\* reading the labels raises: a labeled user without labels.txt, or no labeled
\* user at all (pd.concat of an empty list)
import_labels_raise(users_df) ==
    \/ \E u \in Range(labeled_users_of(users_df)) :
           Format03(u._id) \notin DOMAIN src.labels
    \/ labeled_users_of(users_df) = <<>>

\* labels_df: the rows of every labeled user's labels.txt, with user_id
labels_df(users_df) ==
    Concat(Map(labeled_users_of(users_df),
               LAMBDA u : Map(src.labels[Format03(u._id)],
                              LAMBDA l : [start_datetime |-> l[1],
                                          end_datetime |-> l[2],
                                          transportation_mode |-> l[3],
                                          user_id |-> u._id])))

merge_key(r) == <<r.start_datetime, r.end_datetime, r.user_id>>

\* faulty variant of drop_duplicates: every row is kept
drop_duplicates_none(df) == df

\* DataFrame.drop_duplicates(["start_datetime", "end_datetime", "user_id"]):
\* the first row of every key is kept
drop_duplicates(df) ==
    LET first(i) == \A j \in 1..(i - 1) : merge_key(df[j]) # merge_key(df[i])
        RECURSIVE keep(_)
        keep(i) == IF i > Len(df) THEN <<>>
                   ELSE (IF first(i) THEN <<df[i]>> ELSE <<>>) \o keep(i + 1)
    IN  keep(1)

\* the missing value a left merge leaves where no row matches (float nan)
NaN == "NaN"

\* Series.fillna(value)
fillna(v, value) == IF v = NaN THEN value ELSE v

\* Importer._add_transportation_mode_to_activities: left merge on the key (a
\* row per matching label, one row with the missing value when none
\* matches), then fillna("")
_add_transportation_mode_to_activities(users_df, activities_df) ==
    LET labels == drop_duplicates(labels_df(users_df))
        with(a, mode) ==
            [_id |-> a._id, user_id |-> a.user_id,
             start_datetime |-> a.start_datetime,
             end_datetime |-> a.end_datetime,
             transportation_mode |-> fillna(mode, "")]
        merged(a) ==
            LET right == SelectSeq(labels,
                                   LAMBDA l : merge_key(l) = merge_key(a))
            IN  IF right = <<>> THEN <<with(a, NaN)>>
                ELSE [i \in DOMAIN right |->
                         with(a, right[i].transportation_mode)]
    IN  Concat([k \in DOMAIN activities_df |-> merged(activities_df[k])])

\* Importer._add_transportation_mode_to_track_points: left merge on
\* activity_id (a row per activity row of that _id, one row with the missing
\* value when there is none)
_add_transportation_mode_to_track_points(activities_df, track_points_df) ==
    LET with(t, mode) ==
            [datetime |-> t.datetime, latitude |-> t.latitude,
             longitude |-> t.longitude, altitude |-> t.altitude,
             location |-> t.location, activity_id |-> t.activity_id,
             user_id |-> t.user_id, line |-> t.line,
             transportation_mode |-> mode]
        merged(t) ==
            LET right == SelectSeq(activities_df,
                                   LAMBDA a : a._id = t.activity_id)
            IN  IF right = <<>> THEN <<with(t, NaN)>>
                ELSE [i \in DOMAIN right |->
                         with(t, right[i].transportation_mode)]
    IN  Concat([k \in DOMAIN track_points_df |-> merged(track_points_df[k])])

\* Importer._add_mongo_object_id: one ObjectId() per row, after those of the
\* activities
_add_mongo_object_id(df, used) ==
    [k \in DOMAIN df |->
        [datetime |-> df[k].datetime, latitude |-> df[k].latitude,
         longitude |-> df[k].longitude, altitude |-> df[k].altitude,
         location |-> df[k].location, activity_id |-> df[k].activity_id,
         user_id |-> df[k].user_id, line |-> df[k].line,
         transportation_mode |-> df[k].transportation_mode,
         _id |-> oid + used + k]]

\* the activities_df of import_activities_and_track_points_df
import_activities_df(users_df) ==
    _add_transportation_mode_to_activities(users_df, activity_tuples(users_df))

\* the track_points_df of import_activities_and_track_points_df
import_track_points_df(users_df) ==
    _add_mongo_object_id(
        _add_transportation_mode_to_track_points(import_activities_df(users_df),
                                                 raw_track_points(users_df)),
        Len(import_files(users_df)))

\* faulty variant of user_activities: the activities are not grouped by user
user_activities_ungrouped(activities_df, id) ==
    Map(activities_df, LAMBDA a : a._id)

\* list(v): a list is copied; a str gives the list of its characters, which
\* is the sequence that stands for the str
list(v) == v

\* df.groupby(["user_id"])["_id"].apply(list), left-merged on the user's _id,
\* then fillna("").apply(list): the _id of the user's activities in the order
\* of df; a user without a group gets the missing value, "" and then []
user_activities(activities_df, id) ==
    LET group == Map(SelectSeq(activities_df, LAMBDA a : a.user_id = id),
                     LAMBDA a : a._id)
    IN  list(IF group = <<>> THEN fillna(NaN, <<>>) ELSE group)

\* df.groupby(["activity_id"])["_id"].apply(list), left-merged on the
\* activity's _id, then fillna("").apply(list)
activity_track_points(track_points_df, id) ==
    LET group == Map(SelectSeq(track_points_df, LAMBDA t : t.activity_id = id),
                     LAMBDA t : t._id)
    IN  list(IF group = <<>> THEN fillna(NaN, <<>>) ELSE group)

\* faulty variant of _add_back_reference_for_activities_on_users: an inner
\* merge, a user without activities is dropped
_add_back_reference_for_activities_on_users_inner(users_df, activities_df) ==
    Map(SelectSeq(users_df,
                  LAMBDA u : \E a \in Range(activities_df) : a.user_id = u._id),
        LAMBDA u : [_id |-> u._id, has_labels |-> u.has_labels,
                    activities |->
                        user_activities(activities_df, u._id)])

\* Importer._add_back_reference_for_activities_on_users
_add_back_reference_for_activities_on_users(users_df, activities_df) ==
    Map(users_df,
        LAMBDA u : [_id |-> u._id, has_labels |-> u.has_labels,
                    activities |->
                        user_activities(activities_df, u._id)])

\* Importer._add_back_reference_for_track_points_on_activities
_add_back_reference_for_track_points_on_activities(activities_df, track_points_df) ==
    Map(activities_df,
        LAMBDA a : [_id |-> a._id, user_id |-> a.user_id,
                    start_datetime |-> a.start_datetime,
                    end_datetime |-> a.end_datetime,
                    transportation_mode |-> a.transportation_mode,
                    track_points |->
                        activity_track_points(track_points_df, a._id)])

\* faulty variant of imported: the collections are not looked at
imported_never == FALSE

\* Importer.imported: len(self.db.list_collection_names()) != 0
imported == colls.exists # {}

\* faulty variant of _import: insert_one, only the first record is inserted
_import_first_only(c, df, collection) ==
    [c EXCEPT ![collection] = @ \o Slice(df, 0, 1),
              !.exists = @ \cup {collection}]

\* Importer._import: self.db[collection].insert_many(df.to_dict(orient="records"))
_import(c, df, collection) ==
    [c EXCEPT ![collection] = @ \o df, !.exists = @ \cup {collection}]

\* faulty variant of before_duplicate: _id is not unique in a collection
before_duplicate_none(c, df, collection) == df

\* insert_many is ordered and _id is unique in a collection: the documents in
\* front of the first one whose _id the collection holds are what it inserts
before_duplicate(c, df, collection) ==
    LET held == {d._id : d \in Range(c[collection])}
        dup == {k \in DOMAIN df : df[k]._id \in held}
        first == CHOOSE k \in dup : \A j \in dup : k <= j
    IN  IF dup = {} THEN df ELSE Slice(df, 0, first - 1)

\* insert_many raises BulkWriteError when it met a document it cannot insert
duplicate_key(c, df, collection) == before_duplicate(c, df, collection) # df

\* the collections create_collections creates, in its order
collections == <<"users", "activities", "track_points">>

\* whether self.db.create_collection(collection) raises. The driver looks the
\* name up and raises CollectionInvalid when it is listed; a name that another
\* client creates after the lookup goes to the server, which refuses it or
\* takes the command as done, by its version
create_collection_raises(c, collection) ==
    IF collection \in c.exists THEN {TRUE, FALSE} ELSE {FALSE}

\* self.db.create_collection(collection)
create_collection(c, collection) == [c EXCEPT !.exists = @ \cup {collection}]

\* self.db.drop_collection(collection): the documents and the indices go
drop_collection(c, collection) ==
    [c EXCEPT !.exists = @ \ {collection}, ![collection] = <<>>,
              !.indices = {ix \in @ : ix[1] # collection}]

-----------------------------------------------------------------------------
(* The datasets the pipeline is run on.                                    *)

U1 == <<"0", "0", "1">>
U2 == <<"0", "0", "2">>
Hidden == <<".", "h">>
Other == <<"x">>
FA == <<"a", ".", "p">>
FB == <<"b", ".", "p">>
FC == <<"a", ".", "q">>

Times == 1..MaxTime

\* an activity file: the header lines, then one data row per time
File(name, times) ==
    [name |-> name,
     lines |-> [i \in 1..HEADER_SIZE |-> HeaderLine]
               \o [k \in DOMAIN times |-> DataLine(1, times[k])]]

\* n rows at the times 1, 2, ... (the last time repeated from MaxTime on)
Ascending(n) == [k \in 1..n |-> Min(k, MaxTime)]

Label(s, e, mode) == <<(<<1, s>>), (<<1, e>>), mode>>

Dataset(labeled, files1, files2, labels1) ==
    [listing |-> <<Hidden, U1, U2>>,
     labeled |-> labeled,
     traj |-> (U1 :> files1) @@ (U2 :> files2),
     labels |-> (U1 :> labels1) @@ (U2 :> <<Label(1, 2, "bus")>>)]

\* datasets whose files differ in their number of rows, around the limit
SizeDatasets ==
    LET sizes == 0..(activity_line_limit + 1)
        files1 == {<<>>}
                  \cup {<<File(FA, Ascending(n))>> : n \in sizes}
                  \cup {<<File(FA, Ascending(n)), File(FB, Ascending(m))>> :
                            n \in sizes, m \in sizes}
    IN  {Dataset(labeled, f1, <<File(FA, <<1, 2>>)>>, <<Label(1, 2, "walk")>>) :
            labeled \in {<<>>, <<U1>>, <<U1, U2>>}, f1 \in files1}

\* datasets whose labels differ: one or two labels of user 001, the first
\* "walk" and the second "bus", around an activity from time 2 to time 2
LabelDatasets ==
    LET spans == {p \in Times \X Times : p[1] <= p[2]}
        labels1 == {<<Label(p[1], p[2], "walk")>> : p \in spans}
                   \cup {<<Label(p[1], p[2], "walk"), Label(q[1], q[2], "bus")>> :
                            p \in spans, q \in spans}
    IN  {Dataset(<<U1>>, <<File(FA, <<2, 2>>)>>, <<File(FA, <<1, 2>>)>>, l1) :
            l1 \in labels1}

\* datasets whose rows differ in their order: a file of user 001 with two
\* rows at any two times
OrderDatasets ==
    {Dataset(<<U1>>, <<File(FA, <<t1, t2>>)>>, <<File(FA, <<1, 2>>)>>,
             <<Label(1, 2, "walk")>>) : t1 \in Times, t2 \in Times}

\* a dataset whose data directory also holds a hidden entry and an entry
\* that is neither hidden nor a number
ListingDatasets ==
    {[Dataset(labeled, <<File(FA, <<1, 2>>)>>, <<File(FA, <<1, 2>>)>>,
              <<Label(1, 2, "walk")>>) EXCEPT !.listing = <<Hidden, Other, U1, U2>>] :
        labeled \in {<<U1>>, <<U1, U2>>}}

\* a dataset in which two files of user 001 have names with the same text
\* before their first dot
StemDatasets ==
    {Dataset(<<U1>>, <<File(FA, <<1, 1>>), File(FC, <<2, 2>>)>>,
             <<File(FA, <<1, 2>>)>>, <<Label(1, 2, "walk")>>)}

Datasets ==
    SizeDatasets \cup LabelDatasets \cup OrderDatasets \cup ListingDatasets
        \cup StemDatasets

-----------------------------------------------------------------------------
(* State of the sinks and of a call.                                       *)

CollectionNames == {"users", "activities", "track_points"}

EmptyColls ==
    [exists |-> {}, users |-> <<>>, activities |-> <<>>, track_points |-> <<>>,
     indices |-> {}]

NoLocals == [data |-> <<>>, i |-> 0]

\* the sinks and the flag as a call finds them
Snapshot(op) ==
    [op |-> op, tables |-> tables, colls |-> colls, migrated |-> migrated]

\* what a Migrator or an Importer and the call it runs hold of their own: all
\* but the sinks, the dataset and the counters
Context ==
    [pc |-> pc, outcome |-> outcome, migrated |-> migrated, locals |-> locals,
     calls |-> calls, pre |-> pre]

\* the state after construction, for the given paths and datasets
InitWith(targets, datasets) ==
    /\ target \in targets
    /\ src \in datasets
    /\ pc = "idle"
    /\ outcome = "none"
    /\ migrated = FALSE
    /\ tables = EmptyTables
    /\ committed = EmptyTables
    /\ locals = NoLocals
    /\ calls = <<>>
    /\ colls = EmptyColls
    /\ oid = 0
    /\ runs = 0
    /\ pre = Snapshot("none")
    /\ idHist = <<>>
    /\ parked = Context

Init == InitWith({"rel", "doc"}, Datasets)

\* a call returns or raises
Return(result) == pc' = "idle" /\ outcome' = result /\ locals' = NoLocals

\* faulty variant of timed: the wrapper swallows what the method raises
timed_swallows(result) == "ok"

\* @timed: the wrapper returns what the method returns and raises what it raises
timed(result) == result

\* a call of a method decorated with @timed returns or raises
ReturnTimed(result) == Return(timed(result))

-----------------------------------------------------------------------------
(* Migrator: wipe, migrate, seed.                                          *)

\* wipe(): DROP TABLE IF EXISTS TrackPoint
wipe_TrackPoint ==
    /\ target = "rel" /\ pc = "idle"
    /\ pre' = Snapshot("wipe")
    /\ tables' = drop_table(tables, "TrackPoint")
    /\ committed' = tables'
    /\ pc' = "wipe_Activity"
    /\ outcome' = "none"
    /\ UNCHANGED <<parked, target, src, migrated, locals, calls, colls, oid, runs, idHist>>

\* wipe(): DROP TABLE IF EXISTS Activity
wipe_Activity ==
    /\ pc = "wipe_Activity"
    /\ tables' = drop_table(tables, "Activity")
    /\ committed' = tables'
    /\ pc' = "wipe_User"
    /\ UNCHANGED <<parked, target, src, outcome, migrated, locals, calls, colls, oid,
                   runs, pre, idHist>>

\* wipe(): DROP TABLE IF EXISTS User; commit; self.migrated = False
wipe_User ==
    /\ pc = "wipe_User"
    /\ tables' = drop_table(tables, "User")
    /\ committed' = tables'
    /\ migrated' = FALSE
    /\ ReturnTimed("ok")
    /\ UNCHANGED <<parked, target, src, calls, colls, oid, runs, pre, idHist>>

\* migrate(): the migration files are listed; start_transaction(), which
\* raises while writes of the connection are not committed
migrate ==
    /\ target = "rel" /\ pc = "idle"
    /\ pre' = Snapshot("migrate")
    /\ IF tables # committed
       THEN ReturnTimed("ProgrammingError")
       ELSE /\ locals' = [data |-> Migrations, i |-> 0]
            /\ pc' = "migrate_file"
            /\ outcome' = "none"
    /\ UNCHANGED <<parked, target, src, committed, migrated, tables, calls, colls, oid,
                   runs, idHist>>

\* migrate(): one turn of "for migration_file in sorted(migration_files)";
\* the statement succeeds, and the server commits a CREATE TABLE as it ends
migrate_file ==
    /\ pc = "migrate_file"
    /\ locals.i < Len(locals.data)
    /\ tables' = run_migration(tables, locals.data[locals.i + 1])
    /\ committed' = tables'
    /\ locals' = [locals EXCEPT !.i = @ + 1]
    /\ UNCHANGED <<parked, target, src, pc, outcome, migrated, calls, colls, oid, runs,
                   pre, idHist>>

\* migrate(): the statement raises; except Exception: rollback(), and
\* migrate() returns
migrate_file_fails ==
    /\ pc = "migrate_file"
    /\ locals.i < Len(locals.data)
    /\ tables' = rollback
    /\ ReturnTimed("rolled_back")
    /\ UNCHANGED <<parked, target, src, committed, migrated, calls, colls, oid, runs,
                   pre, idHist>>

\* migrate(): the loop is over; commit(); self.migrated = True
migrate_commit ==
    /\ pc = "migrate_file"
    /\ locals.i >= Len(locals.data)
    /\ committed' = tables
    /\ migrated' = TRUE
    /\ ReturnTimed("ok")
    /\ UNCHANGED <<parked, target, src, tables, calls, colls, oid, runs, pre, idHist>>

\* faulty variant of the precondition of seed: no assertion
seed_precondition_absent == TRUE

\* assert self.migrated
seed_precondition == migrated

\* faulty variant of seed_next: the track points are seeded before the
\* activities
seed_next_swapped(stage) ==
    CASE stage = "seed" -> "seed_users"
      [] stage = "seed_users" -> "seed_track_points"
      [] stage = "seed_track_points" -> "seed_activities"
      [] stage = "seed_activities" -> "return"

\* the body of seed(): seed_users(), seed_activities(), seed_track_points()
seed_next(stage) ==
    CASE stage = "seed" -> "seed_users"
      [] stage = "seed_users" -> "seed_activities"
      [] stage = "seed_activities" -> "seed_track_points"
      [] stage = "seed_track_points" -> "return"

\* a stage of seed() is over: the next one starts, or seed() returns
Continue(stage) ==
    IF seed_next(stage) = "return"
    THEN ReturnTimed("ok")
    ELSE pc' = seed_next(stage) /\ locals' = NoLocals /\ UNCHANGED outcome

\* seed(): the assertion, before the first stage
seed ==
    /\ target = "rel" /\ pc = "idle"
    /\ runs < MaxRuns
    /\ runs' = runs + 1
    /\ pre' = Snapshot("seed")
    /\ calls' = <<>>
    /\ IF seed_precondition
       THEN pc' = seed_next("seed") /\ outcome' = "none" /\ locals' = NoLocals
       ELSE ReturnTimed("AssertionError")
    /\ UNCHANGED <<parked, target, src, committed, migrated, tables, colls, oid, idHist>>

\* cursor.executemany on a table that does not exist: the server answers 1146
\* and the connector raises ProgrammingError
table_absent(t, table) == table \notin t.exists

\* seed_users(): executemany of the upsert; commit
seed_users ==
    /\ pc = "seed_users"
    /\ IF table_absent(tables, "User")
       THEN /\ calls' = Append(calls, [ok |-> FALSE, to |-> "User",
                                       records |-> seed_users_data])
            /\ ReturnTimed("ProgrammingError")
            /\ UNCHANGED <<tables, committed>>
       ELSE /\ tables' = [tables EXCEPT !.User = upsert_users(@, seed_users_data)]
            /\ committed' = tables'
            /\ calls' = Append(calls, [ok |-> TRUE, to |-> "User",
                                       records |-> seed_users_data])
            /\ Continue("seed_users")
    /\ UNCHANGED <<parked, target, src, migrated, colls, oid, runs, pre, idHist>>

\* seed_users(): the executemany raises; the statement leaves no row
seed_users_fails ==
    /\ pc = "seed_users"
    /\ calls' = Append(calls, [ok |-> FALSE, to |-> "User",
                               records |-> seed_users_data])
    /\ ReturnTimed("WriteError")
    /\ UNCHANGED <<parked, target, src, committed, migrated, tables, colls, oid, runs,
                   pre, idHist>>

\* the activity id each file is given in this run
seed_ids == {<<f[2], _get_activity_id(f[2], f[1])>> : f \in Range(seed_files)}

\* seed_activities(): _make_activity_data; executemany of INSERT IGNORE; commit;
\* _update_activity_transportation_modes, a commit after every labeled id
seed_activities ==
    /\ pc = "seed_activities"
    /\ IF \E f \in Range(seed_files) : make_activity_raises(f[2])
       THEN /\ ReturnTimed("IndexError")
            /\ UNCHANGED <<tables, committed, calls, idHist>>
       ELSE IF table_absent(tables, "Activity")
       THEN /\ calls' = Append(calls, [ok |-> FALSE, to |-> "Activity",
                                       records |-> _make_activity_data])
            /\ idHist' = Append(idHist, seed_ids)
            /\ ReturnTimed("ProgrammingError")
            /\ UNCHANGED <<tables, committed>>
       ELSE /\ calls' = Append(calls, [ok |-> TRUE, to |-> "Activity",
                                       records |-> _make_activity_data])
                            \o update_modes_calls
            /\ idHist' = Append(idHist, seed_ids)
            /\ tables' = [tables EXCEPT !.Activity =
                             _update_activity_transportation_modes(
                                 insert_ignore_activities(@, _make_activity_data))]
            /\ committed' = tables'
            /\ IF update_modes_raises
               THEN ReturnTimed("FileNotFoundError")
               ELSE Continue("seed_activities")
    /\ UNCHANGED <<parked, target, src, migrated, colls, oid, runs, pre>>

\* seed_activities(): the executemany of INSERT IGNORE raises; the statement
\* leaves no row
seed_activities_fails ==
    /\ pc = "seed_activities"
    /\ ~\E f \in Range(seed_files) : make_activity_raises(f[2])
    /\ calls' = Append(calls, [ok |-> FALSE, to |-> "Activity",
                               records |-> _make_activity_data])
    /\ idHist' = Append(idHist, seed_ids)
    /\ ReturnTimed("WriteError")
    /\ UNCHANGED <<parked, target, src, committed, migrated, tables, colls, oid, runs,
                   pre>>

\* seed_track_points(): the list data is built from the files
seed_track_points ==
    /\ pc = "seed_track_points"
    /\ IF seed_track_points_raises
       THEN ReturnTimed("ValueError")
       ELSE /\ locals' = [data |-> seed_track_points_data, i |-> 0]
            /\ pc' = "seed_batch"
            /\ UNCHANGED outcome
    /\ UNCHANGED <<parked, target, src, committed, migrated, tables, calls, colls, oid,
                   runs, pre, idHist>>

\* seed_track_points(): one turn of "for i in range(0, len(data), batch_size)"
seed_batch ==
    /\ pc = "seed_batch"
    /\ locals.i < Len(locals.data)
    /\ IF table_absent(tables, "TrackPoint")
       THEN /\ calls' = Append(calls, [ok |-> FALSE, to |-> "TrackPoint",
                                       records |-> batch(locals.data, locals.i)])
            /\ ReturnTimed("ProgrammingError")
            /\ UNCHANGED tables
       ELSE /\ tables' = [tables EXCEPT !.TrackPoint =
                             insert_track_points(@, batch(locals.data, locals.i))]
            /\ calls' = Append(calls, [ok |-> TRUE, to |-> "TrackPoint",
                                       records |-> batch(locals.data, locals.i)])
            /\ locals' = [locals EXCEPT !.i = @ + batch_size]
            /\ UNCHANGED <<pc, outcome>>
    /\ UNCHANGED <<parked, target, src, committed, migrated, colls, oid,
                   runs, pre, idHist>>

\* seed_track_points(): the executemany of a batch raises; the statement
\* leaves no row, the rows of the batches before it stay, not committed
seed_batch_fails ==
    /\ pc = "seed_batch"
    /\ locals.i < Len(locals.data)
    /\ calls' = Append(calls, [ok |-> FALSE, to |-> "TrackPoint",
                               records |-> batch(locals.data, locals.i)])
    /\ ReturnTimed("WriteError")
    /\ UNCHANGED <<parked, target, src, committed, migrated, tables, colls, oid, runs,
                   pre, idHist>>

\* seed_track_points(): the loop is over; commit
seed_commit ==
    /\ pc = "seed_batch"
    /\ locals.i >= Len(locals.data)
    /\ committed' = tables
    /\ Continue("seed_track_points")
    /\ UNCHANGED <<parked, target, src, migrated, tables, calls, colls, oid, runs, pre,
                   idHist>>

MigratorNext ==
    \/ wipe_TrackPoint \/ wipe_Activity \/ wipe_User
    \/ migrate \/ migrate_file \/ migrate_file_fails \/ migrate_commit
    \/ seed \/ seed_users \/ seed_users_fails
    \/ seed_activities \/ seed_activities_fails
    \/ seed_track_points \/ seed_batch \/ seed_batch_fails \/ seed_commit

-----------------------------------------------------------------------------
(* Importer: import_with_backreferences, drop_collections.                 *)

\* the indices add_indices creates
Indices ==
    {<<"track_points", "location">>, <<"track_points", "activity_id">>,
     <<"track_points", "datetime">>}

\* the activity id each file is given in this call
import_ids ==
    LET files == import_files(import_user_df)
    IN  {<<files[k][2], oid + k>> : k \in DOMAIN files}

\* import_with_backreferences(): the imported check, then the data frames
import_with_backreferences ==
    /\ target = "doc" /\ pc = "idle"
    /\ runs < MaxRuns
    /\ runs' = runs + 1
    /\ pre' = Snapshot("import")
    /\ calls' = <<>>
    /\ IF imported
       THEN /\ ReturnTimed("warned")
            /\ UNCHANGED <<oid, idHist>>
       ELSE IF import_user_raises
            THEN /\ ReturnTimed("ValueError_int")
                 /\ UNCHANGED <<oid, idHist>>
       ELSE IF \/ import_files_raise(import_user_df)
               \/ import_labels_raise(import_user_df)
            THEN /\ ReturnTimed("raised")
                 /\ UNCHANGED <<oid, idHist>>
            ELSE LET users_df == import_user_df
                     activities_df == import_activities_df(users_df)
                     track_points_df == import_track_points_df(users_df)
                 IN  /\ locals' =
                            [users_df |->
                                _add_back_reference_for_activities_on_users(
                                    users_df, activities_df),
                             activities_df |->
                                _add_back_reference_for_track_points_on_activities(
                                    activities_df, track_points_df),
                             track_points_df |-> track_points_df,
                             i |-> 0]
                     /\ oid' = oid + Len(activities_df) + Len(track_points_df)
                     /\ idHist' = Append(idHist, import_ids)
                     /\ pc' = "create_collections"
                     /\ outcome' = "none"
    /\ UNCHANGED <<parked, target, src, committed, migrated, tables, colls>>

\* create_collections(): one turn of "for collection in collections"
create_collections ==
    /\ pc = "create_collections"
    /\ \E raises \in create_collection_raises(colls, collections[locals.i + 1]) :
           IF raises
           THEN /\ ReturnTimed("CollectionInvalid")
                /\ UNCHANGED colls
           ELSE /\ colls' = create_collection(colls, collections[locals.i + 1])
                /\ IF locals.i + 1 = Len(collections)
                   THEN pc' = "import_users" /\ locals' = [locals EXCEPT !.i = 0]
                   ELSE locals' = [locals EXCEPT !.i = @ + 1] /\ UNCHANGED pc
                /\ UNCHANGED outcome
    /\ UNCHANGED <<parked, target, src, committed, migrated, tables, calls, oid,
                   runs, pre, idHist>>

\* self._import(users_df, "users")
import_users ==
    /\ pc = "import_users"
    /\ colls' = _import(colls, before_duplicate(colls, locals.users_df, "users"),
                        "users")
    /\ calls' = Append(calls, [ok |-> ~duplicate_key(colls, locals.users_df, "users"),
                               to |-> "users", records |-> locals.users_df])
    /\ IF duplicate_key(colls, locals.users_df, "users")
       THEN ReturnTimed("BulkWriteError")
       ELSE pc' = "import_activities" /\ UNCHANGED <<outcome, locals>>
    /\ UNCHANGED <<parked, target, src, committed, migrated, tables, oid, runs,
                   pre, idHist>>

\* self._import(users_df, "users"): insert_many raises at one of the
\* documents; the documents before it are in the collection
import_users_fails ==
    /\ pc = "import_users"
    /\ \E n \in 0..(Len(before_duplicate(colls, locals.users_df, "users")) - 1) :
           colls' = _import(colls, SubSeq(locals.users_df, 1, n), "users")
    /\ calls' = Append(calls, [ok |-> FALSE, to |-> "users",
                               records |-> locals.users_df])
    /\ ReturnTimed("WriteError")
    /\ UNCHANGED <<parked, target, src, committed, migrated, tables, oid, runs, pre,
                   idHist>>

\* self._import(activities_df, "activities")
import_activities ==
    /\ pc = "import_activities"
    /\ colls' = _import(colls, before_duplicate(colls, locals.activities_df, "activities"),
                        "activities")
    /\ calls' = Append(calls, [ok |-> ~duplicate_key(colls, locals.activities_df, "activities"),
                               to |-> "activities", records |-> locals.activities_df])
    /\ IF duplicate_key(colls, locals.activities_df, "activities")
       THEN ReturnTimed("BulkWriteError")
       ELSE pc' = "import_track_points" /\ UNCHANGED <<outcome, locals>>
    /\ UNCHANGED <<parked, target, src, committed, migrated, tables, oid, runs,
                   pre, idHist>>

\* self._import(activities_df, "activities"): insert_many raises at one of the
\* documents; the documents before it are in the collection
import_activities_fails ==
    /\ pc = "import_activities"
    /\ \E n \in 0..(Len(before_duplicate(colls, locals.activities_df, "activities")) - 1) :
           colls' = _import(colls, SubSeq(locals.activities_df, 1, n), "activities")
    /\ calls' = Append(calls, [ok |-> FALSE, to |-> "activities",
                               records |-> locals.activities_df])
    /\ ReturnTimed("WriteError")
    /\ UNCHANGED <<parked, target, src, committed, migrated, tables, oid, runs, pre,
                   idHist>>

\* self._import(track_points_df, "track_points")
import_track_points ==
    /\ pc = "import_track_points"
    /\ colls' = _import(colls, before_duplicate(colls, locals.track_points_df, "track_points"),
                        "track_points")
    /\ calls' = Append(calls, [ok |-> ~duplicate_key(colls, locals.track_points_df, "track_points"),
                               to |-> "track_points", records |-> locals.track_points_df])
    /\ IF duplicate_key(colls, locals.track_points_df, "track_points")
       THEN ReturnTimed("BulkWriteError")
       ELSE pc' = "add_indices" /\ UNCHANGED <<outcome, locals>>
    /\ UNCHANGED <<parked, target, src, committed, migrated, tables, oid, runs,
                   pre, idHist>>

\* self._import(track_points_df, "track_points"): insert_many raises at one of the
\* documents; the documents before it are in the collection
import_track_points_fails ==
    /\ pc = "import_track_points"
    /\ \E n \in 0..(Len(before_duplicate(colls, locals.track_points_df, "track_points")) - 1) :
           colls' = _import(colls, SubSeq(locals.track_points_df, 1, n), "track_points")
    /\ calls' = Append(calls, [ok |-> FALSE, to |-> "track_points",
                               records |-> locals.track_points_df])
    /\ ReturnTimed("WriteError")
    /\ UNCHANGED <<parked, target, src, committed, migrated, tables, oid, runs, pre,
                   idHist>>

\* add_indices(); import_with_backreferences() returns
add_indices ==
    /\ pc = "add_indices"
    /\ colls' = [colls EXCEPT !.indices = @ \cup Indices]
    /\ ReturnTimed("ok")
    /\ UNCHANGED <<parked, target, src, committed, migrated, tables, calls, oid, runs, pre, idHist>>

\* drop_collections(): self.db.drop_collection("users")
drop_users ==
    /\ target = "doc" /\ pc = "idle"
    /\ pre' = Snapshot("drop_collections")
    /\ colls' = drop_collection(colls, "users")
    /\ pc' = "drop_activities"
    /\ outcome' = "none"
    /\ UNCHANGED <<parked, target, src, committed, migrated, tables, locals, calls, oid, runs, idHist>>

\* drop_collections(): self.db.drop_collection("activities")
drop_activities ==
    /\ pc = "drop_activities"
    /\ colls' = drop_collection(colls, "activities")
    /\ pc' = "drop_track_points"
    /\ UNCHANGED <<parked, target, src, committed, outcome, migrated, tables, locals, calls, oid,
                   runs, pre, idHist>>

\* drop_collections(): self.db.drop_collection("track_points"); it returns
drop_track_points ==
    /\ pc = "drop_track_points"
    /\ colls' = drop_collection(colls, "track_points")
    /\ Return("ok")
    /\ UNCHANGED <<parked, target, src, committed, migrated, tables, calls, oid, runs, pre, idHist>>

\* the steps of import_with_backreferences()
ImportNext ==
    \/ import_with_backreferences \/ create_collections
    \/ import_users \/ import_users_fails
    \/ import_activities \/ import_activities_fails
    \/ import_track_points \/ import_track_points_fails
    \/ add_indices

ImporterNext ==
    \/ ImportNext
    \/ drop_users \/ drop_activities \/ drop_track_points

\* labeled_ids.txt is rewritten between two calls (every call reads it anew)
edit_labeled_ids ==
    /\ pc = "idle"
    /\ 1 <= runs /\ runs < MaxRuns
    /\ pre.op # "edit"
    /\ \E l \in {<<>>, <<U1>>, <<U1, U2>>} \ {src.labeled} :
           src' = [src EXCEPT !.labeled = l]
    /\ pre' = Snapshot("edit")
    /\ UNCHANGED <<parked, target, pc, outcome, migrated, tables, committed, locals,
                   calls, colls, oid, runs, idHist>>

\* the data rows of an activity file, each moved to the next time of day
later(lines) ==
    [k \in DOMAIN lines |->
        IF k <= HEADER_SIZE THEN lines[k]
        ELSE [lines[k] EXCEPT ![7] = Min(@ + 1, MaxTime)]]

\* an activity file is rewritten between two calls (every call reads it anew):
\* its rows are recorded again, at later times
edit_activity_file ==
    /\ pc = "idle"
    /\ 1 <= runs /\ runs < MaxRuns
    /\ pre.op # "edit"
    /\ \E u \in DOMAIN src.traj : \E i \in DOMAIN src.traj[u] :
           /\ later(src.traj[u][i].lines) # src.traj[u][i].lines
           /\ src' = [src EXCEPT !.traj[u][i].lines = later(@)]
    /\ pre' = Snapshot("edit")
    /\ UNCHANGED <<parked, target, pc, outcome, migrated, tables, committed, locals,
                   calls, colls, oid, runs, idHist>>

Next == MigratorNext \/ ImporterNext \/ edit_labeled_ids

Spec == Init /\ [][Next]_vars

\* the relational path on a dataset whose activity files change between calls
InitEdit == InitWith({"rel"}, OrderDatasets)

NextEdit == MigratorNext \/ edit_activity_file

SpecEdit == InitEdit /\ [][NextEdit]_vars

\* the state of a Migrator or an Importer and of its call is taken up again
Resume(ctx) ==
    /\ pc' = ctx.pc
    /\ outcome' = ctx.outcome
    /\ migrated' = ctx.migrated
    /\ locals' = ctx.locals
    /\ calls' = ctx.calls
    /\ pre' = ctx.pre

\* two Migrator objects made on one Database, as main() makes one: the next
\* call is the other object's. Calls of one thread do not overlap, so the
\* object changes between two calls only
next_caller ==
    /\ target = "rel" /\ pc = "idle"
    /\ parked' = Context
    /\ Resume(parked)
    /\ UNCHANGED <<target, src, tables, committed, colls, oid, runs, idHist>>

\* two import_with_backreferences() runs of two processes on one database:
\* the processor leaves one run for the other between any two steps
context_switch ==
    /\ target = "doc"
    /\ parked' = Context
    /\ Resume(parked)
    /\ UNCHANGED <<target, src, tables, committed, colls, oid, runs, idHist>>

\* two concurrent import runs on an empty database
InitConcurrent == InitWith({"doc"}, StemDatasets \cup OrderDatasets)

NextConcurrent == ImportNext \/ context_switch

SpecConcurrent == InitConcurrent /\ [][NextConcurrent]_vars

\* the calls of two Migrator objects on one sink, in any order
InitShared == InitWith({"rel"}, StemDatasets)

NextShared == MigratorNext \/ next_caller

SpecShared == InitShared /\ [][NextShared]_vars

-----------------------------------------------------------------------------
(* Properties.                                                             *)

\* the last call was seed() / import_with_backreferences() and it is over
Finished(op) == pc = "idle" /\ pre.op = op

Counts(t) == <<Len(t.User), Len(t.Activity), Len(t.TrackPoint)>>

DocCounts(c) == <<Len(c.users), Len(c.activities), Len(c.track_points)>>

\* C1: seed() called while self.migrated is false (never migrated, or after
\* wipe()) ends at once with the AssertionError of its precondition: no stage
\* runs, no row is written to a table, no write call is issued and the flag
\* is as it was.
C1_SeedUninitializedFails ==
    (pre.op = "seed" /\ ~pre.migrated) =>
        /\ pc = "idle"
        /\ outcome = "AssertionError"
        /\ tables = pre.tables
        /\ calls = <<>>
        /\ migrated = pre.migrated

\* C1 happens: seed() after a seeded store was wiped
C1_Witness ==
    /\ pre.op = "seed" /\ ~pre.migrated
    /\ outcome = "AssertionError"
    /\ idHist # <<>>

\* C2 as claimed: a seed() that succeeds on a store an earlier seed() of the
\* same dataset has filled leaves the row counts of User, Activity and
\* TrackPoint as they were.
C2_ReseedKeepsCounts ==
    (Finished("seed") /\ outcome = "ok" /\ pre.tables.User # <<>>) =>
        Counts(tables) = Counts(pre.tables)

\* C3 as claimed: import_with_backreferences() on a database that holds
\* collections raises AlreadyImportedError and changes nothing.
C3_AlreadyImportedRaises ==
    (pre.op = "import" /\ pre.colls.exists # {}) =>
        /\ pc = "idle"
        /\ outcome = "AlreadyImportedError"
        /\ colls = pre.colls

\* C3 as amended: import_with_backreferences() on a database that holds
\* collections warns and returns; no collection is created, no document
\* inserted, no index created, no write call issued.
C3_AlreadyImportedWarns ==
    (pre.op = "import" /\ pre.colls.exists # {}) =>
        /\ pc = "idle"
        /\ outcome = "warned"
        /\ colls = pre.colls
        /\ DocCounts(colls) = DocCounts(pre.colls)
        /\ calls = <<>>

\* C3 happens: a second import on an imported database
C3_Witness ==
    /\ pre.op = "import" /\ pre.colls.exists # {}
    /\ outcome = "warned"
    /\ colls.track_points # <<>>

\* the ids a file was given in two different runs are equal
SameIdEachRun ==
    \A i \in DOMAIN idHist : \A j \in DOMAIN idHist :
        \A a \in idHist[i] : \A b \in idHist[j] :
            a[1] = b[1] => a[2] = b[2]

\* the ids a file was given in two different runs differ
FreshIdEachRun ==
    \A i \in DOMAIN idHist : \A j \in DOMAIN idHist :
        \A a \in idHist[i] : \A b \in idHist[j] :
            (i # j /\ a[1] = b[1]) => a[2] # b[2]

-----------------------------------------------------------------------------
(* The dataset and the stores, as the properties below read them.          *)

\* every activity file of the dataset: its user directory, its path and its
\* number of data rows (total lines minus the header lines)
SourceFiles ==
    UNION {{[user |-> u,
             path |-> path_join(user_activity_dir(u), src.traj[u][i].name),
             rows |-> Len(src.traj[u][i].lines) - HEADER_SIZE] :
                i \in DOMAIN src.traj[u]} :
           u \in {d \in Range(src.listing) : IsNumeric(d)}}

\* the stored activities and track points of either path, in one shape
StoredActivities ==
    IF target = "rel"
    THEN {[id |-> a.id, user |-> a.user_id, start |-> a.start_datetime,
           end |-> a.end_datetime, mode |-> a.transportation_mode] :
              a \in Range(tables.Activity)}
    ELSE {[id |-> a._id, user |-> Format03(a.user_id),
           start |-> a.start_datetime, end |-> a.end_datetime,
           mode |-> a.transportation_mode] : a \in Range(colls.activities)}

StoredTrackPoints ==
    IF target = "rel"
    THEN {[activity_id |-> t.activity_id, line |-> t.line] :
              t \in Range(tables.TrackPoint)}
    ELSE {[activity_id |-> t.activity_id, line |-> t.line] :
              t \in Range(colls.track_points)}

\* the track points handed to the sink by the write calls of the running call
WrittenTrackPoints ==
    UNION {{[activity_id |-> r.activity_id, line |-> r.line] :
                r \in Range(calls[i].records)} :
           i \in {j \in DOMAIN calls : calls[j].to \in {"TrackPoint", "track_points"}}}

\* the file is in the store: as an Activity of its user, with every one of its
\* data rows as a TrackPoint of that Activity
InStore(f) ==
    \E a \in StoredActivities :
        /\ a.user = f.user
        /\ \E t \in StoredTrackPoints : t.activity_id = a.id /\ t.line[1] = f.path
        /\ \A k \in 1..f.rows :
               \E t \in StoredTrackPoints :
                   t.activity_id = a.id /\ t.line = <<f.path, k>>

\* seed() / import_with_backreferences() ran to its end
Seeded == pc = "idle" /\ outcome = "ok" /\ pre.op \in {"seed", "import"}

LabelsOf(user) ==
    IF user \in Range(src.labeled) /\ user \in DOMAIN src.labels
    THEN src.labels[user] ELSE <<>>

\* the labels of the activity's user whose start and end are the activity's
ExactLabels(a) ==
    {i \in DOMAIN LabelsOf(a.user) :
        LabelsOf(a.user)[i][1] = a.start /\ LabelsOf(a.user)[i][2] = a.end}

\* C6 as claimed: after a seed/import an activity has the mode of a label of
\* its user with exactly its start and its end; without such a label (also
\* when a label interval contains or overlaps the activity) it has the empty
\* mode.
C6_ExactLabelMatch ==
    Seeded =>
        \A a \in StoredActivities :
            IF ExactLabels(a) = {}
            THEN a.mode = ""
            ELSE \E i \in ExactLabels(a) : a.mode = LabelsOf(a.user)[i][3]

\* C7 as claimed: when several labels of the user have exactly the start and
\* end of the activity, the activity has the mode of the first of them.
C7_FirstDuplicateWins ==
    Seeded =>
        \A a \in StoredActivities :
            Cardinality(ExactLabels(a)) >= 2 =>
                a.mode = LabelsOf(a.user)[
                    CHOOSE i \in ExactLabels(a) :
                        \A j \in ExactLabels(a) : i <= j][3]

NoDuplicates(s) == \A i \in DOMAIN s : \A j \in DOMAIN s : s[i] = s[j] => i = j

\* C8: after a document-path import, the activities list of every User holds
\* exactly the _id of the Activities whose user_id is the User's _id, each
\* once.
C8_UserBackreferences ==
    (target = "doc" /\ Seeded) =>
        \A u \in Range(colls.users) :
            /\ NoDuplicates(u.activities)
            /\ Range(u.activities)
                   = {a._id : a \in {b \in Range(colls.activities) :
                                         b.user_id = u._id}}

\* C8 happens: an import with two users that own activities, one of them two
C8_Witness ==
    /\ target = "doc" /\ Seeded
    /\ \E u \in Range(colls.users) : \E v \in Range(colls.users) :
           /\ u._id # v._id
           /\ Len(u.activities) >= 2
           /\ Len(v.activities) >= 1

\* the source lines of the track points within the limit, in the order the
\* files are listed and the rows are written in them
RECURSIVE LinesInOrder(_)
LinesInOrder(dirs) ==
    IF dirs = <<>> THEN <<>>
    ELSE LET u == Head(dirs)
             within == SelectSeq(src.traj[u],
                           LAMBDA f : Len(f.lines) - HEADER_SIZE
                                          <= activity_line_limit)
             lines(f) == [k \in 1..(Len(f.lines) - HEADER_SIZE) |->
                             <<path_join(user_activity_dir(u), f.name), k>>]
         IN  Concat([i \in DOMAIN within |-> lines(within[i])])
             \o LinesInOrder(Tail(dirs))

\* the write calls of the running seed() to TrackPoint, in the order issued
TrackPointCalls == SelectSeq(calls, LAMBDA c : c.to = "TrackPoint")

\* C9: seed() writes the N track points of the dataset in ceil(N / batch_size)
\* calls, every call but the last of batch_size records and the last of the
\* rest, the records in source order, none repeated or omitted; the table
\* grows by N rows, so a table that was empty holds N.
C9_BatchBoundaries ==
    (target = "rel" /\ Seeded) =>
        LET expected == LinesInOrder(SelectSeq(src.listing, IsNumeric))
            N == Len(expected)
            n == Len(TrackPointCalls)
            written == Concat([i \in 1..n |-> TrackPointCalls[i].records])
        IN  /\ n = (N + batch_size - 1) \div batch_size
            /\ \A i \in 1..(n - 1) :
                   Len(TrackPointCalls[i].records) = batch_size
            /\ n > 0 => Len(TrackPointCalls[n].records)
                            = N - batch_size * (n - 1)
            /\ [k \in DOMAIN written |-> written[k].line] = expected
            /\ Len(tables.TrackPoint) = Len(pre.tables.TrackPoint) + N
            /\ pre.tables.TrackPoint = <<>> =>
                   [k \in DOMAIN tables.TrackPoint |-> tables.TrackPoint[k].line]
                       = expected

\* C9 happens: a seed() into an empty table whose track points fill two
\* batches and a part of a third
C9_Witness ==
    /\ target = "rel" /\ Seeded
    /\ pre.tables.TrackPoint = <<>>
    /\ Len(TrackPointCalls) = 3
    /\ Len(TrackPointCalls[3].records) < batch_size
    /\ Len(tables.TrackPoint) = 2 * batch_size + Len(TrackPointCalls[3].records)

\* C10 as claimed: every bulk write call of a seed/import, to any table or
\* collection, carries at most batch_size (chunk_size) records.
C10_EveryCallBounded ==
    \A i \in DOMAIN calls : Len(calls[i].records) <= batch_size

-----------------------------------------------------------------------------
(* wipe() and drop_collections().                                          *)

\* C11: wipe() (drop_collections() on the document path), called in any state
\* between two calls, returns normally and leaves none of the three tables
\* (collections), no row (document, index) and the flag migrated (imported)
\* false; called on a store that is already in that state it leaves it as it
\* is, so wipe(); wipe() ends where a single wipe() does.
C11_WipeToUninitialized ==
    /\ Finished("wipe") =>
           /\ outcome = "ok"
           /\ tables = EmptyTables
           /\ ~migrated
           /\ (pre.tables = EmptyTables /\ ~pre.migrated) =>
                  (tables = pre.tables /\ migrated = pre.migrated)
    /\ Finished("drop_collections") =>
           /\ outcome = "ok"
           /\ colls = EmptyColls
           /\ ~imported
           /\ pre.colls = EmptyColls => colls = pre.colls

\* C11 happens: a seeded store was wiped, and wipe() has run once more on the
\* wiped store
C11_Witness ==
    /\ Finished("wipe")
    /\ pre.tables = EmptyTables /\ ~pre.migrated
    /\ idHist # <<>> /\ idHist[1] # {}

StoredUsers ==
    IF target = "rel" THEN {u.id : u \in Range(tables.User)}
    ELSE {Format03(u._id) : u \in Range(colls.users)}

\* a wipe has dropped a part of the store and not yet the rest
Wiping == pc \in {"wipe_Activity", "wipe_User", "drop_activities",
                  "drop_track_points"}

\* C12 as claimed: in no intermediate state of a wipe, on either path, does
\* the store hold TrackPoints without Activities or Activities without Users.
C12_ChildrenBeforeParents ==
    Wiping =>
        /\ StoredTrackPoints # {} => StoredActivities # {}
        /\ StoredActivities # {} => StoredUsers # {}

-----------------------------------------------------------------------------
(* migrate().                                                              *)

\* C13 as claimed: a migrate() called with migrated false either runs every
\* migration statement, commits and sets migrated, or, when a statement
\* fails, leaves the store as it found it (no table a statement of this call
\* created remains) with migrated false.
C13_MigrateAllOrNothing ==
    (Finished("migrate") /\ ~pre.migrated) =>
        IF outcome = "ok"
        THEN migrated /\ tables.exists = TableNames /\ committed = tables
        ELSE tables = pre.tables /\ ~migrated

-----------------------------------------------------------------------------
(* The stages of seed() and import_with_backreferences().                  *)

\* the sink each write call of the running call went to, in the order issued
CallOrder == [i \in DOMAIN calls |-> calls[i].to]

Ordered(rank(_)) ==
    \A i \in DOMAIN calls : \A j \in DOMAIN calls :
        i < j => rank(calls[i].to) <= rank(calls[j].to)

\* the place of a write in the order Users, Activities, TrackPoints, mode
\* backfill
ClaimedStage(to) ==
    CASE to \in {"User", "users"} -> 1
      [] to \in {"Activity", "activities"} -> 2
      [] to \in {"TrackPoint", "track_points"} -> 3
      [] to = "Activity_mode" -> 4

\* the place of a write in the order Users, Activities, mode backfill,
\* TrackPoints
Stage(to) ==
    CASE to \in {"User", "users"} -> 1
      [] to \in {"Activity", "activities"} -> 2
      [] to = "Activity_mode" -> 3
      [] to \in {"TrackPoint", "track_points"} -> 4

\* the indices exist only once the three inserts of the call are over
IndicesLast ==
    (pre.op = "import" /\ colls.indices # pre.colls.indices) =>
        /\ CallOrder = <<"users", "activities", "track_points">>
        /\ \A i \in DOMAIN calls : calls[i].ok

\* a call that succeeded has run every stage
AllStagesRun ==
    Seeded =>
        IF target = "rel"
        THEN /\ Len(calls) >= 2
             /\ calls[1].to = "User" /\ calls[2].to = "Activity"
             /\ Len(SelectSeq(calls, LAMBDA c : c.to = "Activity_mode"))
                    = Len(src.labeled)
             /\ \A i \in DOMAIN calls : calls[i].ok
             /\ committed = tables
        ELSE /\ CallOrder = <<"users", "activities", "track_points">>
             /\ colls.indices = Indices

C15_FlagOnlyOnSuccess ==
    (/\ pre.op = "import" /\ pc = "idle" /\ outcome = "WriteError"
     /\ \E i \in DOMAIN calls : calls[i].ok) => ~imported

\* C16: a bulk write that failed is the last one the call issued, and the
\* call is over with the error, not with success; on the relational path,
\* when the write of a batch of track points failed, the table has grown by
\* exactly the rows of the batches before it.
C16_FailedChunkPropagates ==
    \A k \in DOMAIN calls :
        (pre.op \in {"seed", "import"} /\ ~calls[k].ok) =>
            /\ k = Len(calls)
            /\ pc = "idle"
            /\ outcome = "WriteError"
            /\ calls[k].to = "TrackPoint" =>
                   LET before == SelectSeq(SubSeq(calls, 1, k - 1),
                                           LAMBDA c : c.to = "TrackPoint")
                       rows == Concat([i \in DOMAIN before |-> before[i].records])
                       added == Drop(tables.TrackPoint, Len(pre.tables.TrackPoint))
                   IN  /\ \A i \in DOMAIN before : before[i].ok
                       /\ [i \in DOMAIN added |-> added[i].line]
                              = [i \in DOMAIN rows |-> rows[i].line]

\* C16 happens: the write of the second batch of a seed() failed
C16_Witness ==
    /\ target = "rel" /\ pre.op = "seed"
    /\ pc = "idle" /\ outcome = "WriteError"
    /\ Len(TrackPointCalls) = 2
    /\ ~TrackPointCalls[2].ok
    /\ Len(tables.TrackPoint) = Len(pre.tables.TrackPoint) + batch_size

-----------------------------------------------------------------------------
(* Users, timestamps and modes.                                            *)

\* the running or last seed/import has written its users
UsersWritten ==
    /\ pre.op \in {"seed", "import"}
    /\ \E i \in DOMAIN calls : calls[i].to \in {"User", "users"} /\ calls[i].ok

\* C17: once a seed/import has written the users, has_labels of every stored
\* User is true exactly if its id is a line of labeled_ids.txt as the call
\* read it, whatever modes its activities have; so a seed() after the list
\* changed brings has_labels of the rows that were there to the new value.
C17_HasLabelsIffListed ==
    UsersWritten =>
        IF target = "rel"
        THEN \A u \in Range(tables.User) :
                 u.has_labels <=> u.id \in Range(src.labeled)
        ELSE \A u \in Range(colls.users) :
                 u.has_labels <=> Format03(u._id) \in Range(src.labeled)

\* C17 happens: a second seed() after labeled_ids.txt changed has turned
\* has_labels of a stored User, and a User with has_labels has no activity
\* with a mode
C17_Witness ==
    /\ target = "rel" /\ UsersWritten
    /\ \E u \in Range(tables.User) : \E v \in Range(pre.tables.User) :
           u.id = v.id /\ u.has_labels # v.has_labels
    /\ \E u \in Range(tables.User) :
           /\ u.has_labels
           /\ \A a \in Range(tables.Activity) :
                  a.user_id = u.id => a.transportation_mode = ""

\* C18 as claimed: every stored Activity starts no later than it ends,
\* whatever the order of the rows of its file.
C18_StartNotAfterEnd ==
    \A a \in StoredActivities : DtLeq(a.start, a.end)

\* the modes the labels of the dataset name
LabelModes ==
    UNION {{src.labels[u][i][3] : i \in DOMAIN src.labels[u]} :
              u \in DOMAIN src.labels}

\* C19 as claimed: after a seed/import the mode of every stored Activity is
\* a string, not a missing value: the empty string when no label of its user
\* has exactly its start and end, the mode of a label otherwise.
C19_ModeNeverNull ==
    Seeded =>
        \A a \in StoredActivities :
            /\ a.mode # NaN
            /\ a.mode \in LabelModes \cup {""}
            /\ ExactLabels(a) = {} => a.mode = ""

\* the name is a non-negative integer in decimal digits
ParsesAsNat(name) == Len(name) > 0 /\ \A i \in DOMAIN name : name[i] \in Digits

\* C20 as claimed: listing the user ids raises no error on an entry of the
\* data directory that is hidden or not a number, and the users a seed/import
\* writes are exactly the entries whose name is a non-negative integer.
C20_UserIdsAreNumericEntries ==
    /\ pre.op \in {"seed", "import"} => outcome # "ValueError_int"
    /\ UsersWritten =>
           StoredUsers = {d \in Range(src.listing) : ParsesAsNat(d)}

-----------------------------------------------------------------------------
(* Files that cannot be read as an activity.                               *)

\* the call got past its precondition and no write and no label file failed it
ReadAllFiles ==
    /\ pc = "idle" /\ pre.op \in {"seed", "import"}
    /\ outcome \notin {"AssertionError", "warned", "WriteError",
                       "FileNotFoundError", "ValueError_int"}
    /\ target = "doc" => ~import_labels_raise(import_user_df)

\* C21 as claimed: a seed/import of a dataset with an activity file that has
\* no data row after its header lines runs to its end; that file is left out
\* and every other file within the limit, of the same user and of the other
\* users, is in the store.
C21_MalformedFileSkipped ==
    ((\E f \in SourceFiles : f.rows = 0) /\ ReadAllFiles) =>
        /\ outcome = "ok"
        /\ \A f \in SourceFiles :
               InStore(f) <=> (0 < f.rows /\ f.rows <= activity_line_limit)

-----------------------------------------------------------------------------
(* Rows that were already in the store.                                    *)

\* C22 as claimed: after a seed() that succeeds, has_labels of every stored
\* User is the one the source gives now, and every stored Activity has the
\* user, the start and the end its file gives now, also when the row was
\* there before with other values. (The mode is left to C6.)
C22_RowsFollowSource ==
    (target = "rel" /\ Seeded) =>
        /\ \A u \in Range(tables.User) :
               u.has_labels <=> u.id \in Range(labeled_ids)
        /\ \A a \in Range(tables.Activity) :
               \E d \in Range(_make_activity_data) :
                   /\ d.id = a.id
                   /\ d.user_id = a.user_id
                   /\ d.start_datetime = a.start_datetime
                   /\ d.end_datetime = a.end_datetime

-----------------------------------------------------------------------------
(* A migration statement that fails.                                       *)

\* the outcomes with which a call returns to its caller; every other outcome
\* is an exception the caller gets
NormalReturns == {"ok", "warned", "rolled_back"}

\* C23 as claimed: a migrate() in which a migration statement failed does not
\* return normally: it ends with a SchemaError raised to the caller (a
\* migrate() that returns normally has run every statement).
C23_DdlFailureRaises ==
    Finished("migrate") =>
        IF outcome \in NormalReturns
        THEN outcome = "ok" /\ migrated /\ tables.exists = TableNames
        ELSE outcome \in {"SchemaError", "ProgrammingError"}

-----------------------------------------------------------------------------
(* Owners.                                                                 *)

\* the number of rows (documents) of s whose key is id
Owners(s, key(_), id) == Cardinality({i \in DOMAIN s : key(s[i]) = id})

\* C24: after a seed/import that succeeds, the activity_id of every stored
\* TrackPoint is the id of exactly one stored Activity and the user_id of
\* every stored Activity is the id of exactly one stored User.
C24_ExactlyOneOwner ==
    Seeded =>
        IF target = "rel"
        THEN /\ \A t \in Range(tables.TrackPoint) :
                    Owners(tables.Activity, LAMBDA a : a.id, t.activity_id) = 1
             /\ \A a \in Range(tables.Activity) :
                    Owners(tables.User, LAMBDA u : u.id, a.user_id) = 1
        ELSE /\ \A t \in Range(colls.track_points) :
                    Owners(colls.activities, LAMBDA a : a._id, t.activity_id) = 1
             /\ \A a \in Range(colls.activities) :
                    Owners(colls.users, LAMBDA u : u._id, a.user_id) = 1

\* C24 happens: a second seed() over a store that held the same activities
\* and track points, of two users
C24_Witness ==
    /\ target = "rel" /\ Seeded
    /\ pre.tables.Activity # <<>> /\ pre.tables.TrackPoint # <<>>
    /\ Len(tables.TrackPoint) > Len(pre.tables.TrackPoint)
    /\ \E a \in Range(tables.Activity) : \E b \in Range(tables.Activity) :
           a.user_id # b.user_id

-----------------------------------------------------------------------------
(* The mode on the track points of the document path.                      *)

\* the source lines of the records of a sequence of track points
Lines(records) == [k \in DOMAIN records |-> records[k].line]

\* C25: on the document path the transportation_mode of every stored
\* TrackPoint is that of the Activity whose _id is its activity_id, and the
\* track points handed to the store are the rows of the files within the
\* limit, each once: adding the mode adds and removes none.
C25_TrackPointModeOfOwner ==
    target = "doc" =>
        /\ \A t \in Range(colls.track_points) :
               \A a \in Range(colls.activities) :
                   a._id = t.activity_id
                       => t.transportation_mode = a.transportation_mode
        /\ \A i \in DOMAIN calls :
               calls[i].to = "track_points" =>
                   Lines(calls[i].records)
                       = LinesInOrder(SelectSeq(src.listing, IsNumeric))

\* C25 happens: an import stored track points of an activity with a mode
\* and track points of an activity without one
C25_Witness ==
    /\ target = "doc" /\ Seeded
    /\ \E t \in Range(colls.track_points) : t.transportation_mode = "walk"
    /\ \E t \in Range(colls.track_points) : t.transportation_mode = ""
    /\ \A t \in Range(colls.track_points) :
           \E a \in Range(colls.activities) : a._id = t.activity_id

-----------------------------------------------------------------------------
(* The backreference fields of the document path.                          *)

\* C26: on the document path every stored User has the field activities and
\* every stored Activity the field track_points; after an import every user
\* directory has its User document, and the field of a User without
\* activities (of an Activity without track points) is the empty list.
C26_BackreferenceFieldsPresent ==
    target = "doc" =>
        /\ \A u \in Range(colls.users) : "activities" \in DOMAIN u
        /\ \A a \in Range(colls.activities) : "track_points" \in DOMAIN a
        /\ Seeded =>
               /\ {u._id : u \in Range(colls.users)}
                      = {ParseInt(d) : d \in Range(user_directory_names)}
               /\ \A u \in Range(colls.users) :
                      (\A a \in Range(colls.activities) : a.user_id # u._id)
                          => u.activities = <<>>
               /\ \A a \in Range(colls.activities) :
                      (\A t \in Range(colls.track_points) : t.activity_id # a._id)
                          => a.track_points = <<>>

\* C26 happens: an import stored a User without activities next to a User
\* with activities
C26_Witness ==
    /\ target = "doc" /\ Seeded
    /\ \E u \in Range(colls.users) :
           /\ u.activities = <<>>
           /\ \A a \in Range(colls.activities) : a.user_id # u._id
    /\ \E u \in Range(colls.users) : u.activities # <<>>

-----------------------------------------------------------------------------
(* Backreferences and the documents they name.                             *)

\* every identifier in a backreference list is the _id of a stored document
NoDanglingBackreference ==
    /\ \A u \in Range(colls.users) :
           Range(u.activities) \subseteq {a._id : a \in Range(colls.activities)}
    /\ \A a \in Range(colls.activities) :
           Range(a.track_points) \subseteq {t._id : t \in Range(colls.track_points)}

\* the running or last import has inserted its three collections
AllInserted ==
    /\ pre.op = "import"
    /\ \E i \in DOMAIN calls : calls[i].to = "track_points" /\ calls[i].ok

\* C27 as claimed: on the document path no backreference dangles in any
\* state, also between the three inserts and after an insert that failed.
C27_NeverDangling == target = "doc" => NoDanglingBackreference

\* C27 as amended: on the document path no backreference dangles once the
\* import has inserted its three collections, so after every import that
\* succeeds; the users are inserted with their lists before the activities,
\* and the activities before the track points.
C27_NoDanglingOnceInserted ==
    (target = "doc" /\ AllInserted) => NoDanglingBackreference

\* C27 happens: an import is over, with a User that lists activities and an
\* Activity that lists several track points
C27_Witness ==
    /\ target = "doc" /\ AllInserted /\ Seeded
    /\ \E u \in Range(colls.users) : Len(u.activities) >= 1
    /\ \E a \in Range(colls.activities) : Len(a.track_points) >= 2

-----------------------------------------------------------------------------
(* The activity id of a file.                                              *)

\* C28 as claimed: two different files that seed() reads, of two users or of
\* one, also with names that agree before their first dot, are never given
\* the same activity id; so after a seed() no two files have their track
\* points under one Activity.
C28_ActivityIdInjective ==
    (target = "rel" /\ Seeded) =>
        /\ \A f \in Range(seed_files) : \A g \in Range(seed_files) :
               f # g => _get_activity_id(f[2], f[1]) # _get_activity_id(g[2], g[1])
        /\ \A t \in Range(tables.TrackPoint) : \A r \in Range(tables.TrackPoint) :
               t.activity_id = r.activity_id => t.line[1] = r.line[1]

\* C29: in any interleaving of the wipe(), migrate() and seed() calls of
\* Migrator objects that share a sink, an object whose migrated flag is true
\* sees the three tables in the sink, and seed() does not pass its assertion
\* while a table is missing
C29_FlagImpliesSchema ==
    /\ (pc = "idle" /\ migrated) => tables.exists = TableNames
    /\ (pc = "idle" /\ parked.migrated) => tables.exists = TableNames
    /\ pc = "seed_users" => tables.exists = TableNames

\* the runs that a call to insert_many has served without an error
Inserting == {ctx \in {Context, parked} : \E k \in DOMAIN ctx.calls : ctx.calls[k].ok}

\* C30: when two import_with_backreferences() runs go on together on a database
\* that was empty, no collection ever holds more documents than one import
\* inserts, and at most one of the runs gets an insert_many through
C30_NoSecondCopy ==
    /\ Len(colls.users) <= Len(import_user_df)
    /\ Len(colls.activities) <= Len(import_activities_df(import_user_df))
    /\ Len(colls.track_points) <= Len(import_track_points_df(import_user_df))
    /\ Cardinality(Inserting) <= 1

\* both runs found the database empty and got through create_collections, one
\* of them has inserted all its documents and the other one was stopped by
\* the first user document
C30_Witness ==
    /\ parked.pre.op = "import" /\ pre.op = "import"
    /\ parked.pre.colls.exists = {} /\ pre.colls.exists = {}
    /\ pc = "idle" /\ parked.pc = "idle"
    /\ {outcome, parked.outcome} = {"ok", "BulkWriteError"}
    /\ Len(colls.track_points) > 0
    /\ Len(colls.track_points) = Len(import_track_points_df(import_user_df))


=============================================================================
